---------------------------- MODULE Spec2Model ----------------------------
(***************************************************************************)
(* Model of mkdocstrings' Python handler (handlers/python.py):             *)
(*   - PythonCollector: one long-lived `pytkdocs --line-by-line` worker,   *)
(*     one JSON request line written and one response line read per       *)
(*     collect() call, classification of the decoded response;            *)
(*   - rebuild_category_lists: reconstruction of the object tree from its  *)
(*     flattened wire form.                                                *)
(*                                                                         *)
(* Python objects are modelled with their identity: a decoded tree lives   *)
(* in a heap (a sequence of nodes, the index is the object's identity) and *)
(* containers hold references into the heap.  A container carries the kind *)
(* of Python value it currently is ("mapping", "paths", "nodes", "list"),  *)
(* since rebuild_category_lists changes the type of each field in place.   *)
(***************************************************************************)
EXTENDS Integers, Sequences, FiniteSets, TLC

(***************************************************************************)
(* Bounds of the model.                                                    *)
(***************************************************************************)
MaxNodes == 3
MaxRefs == 2
MaxCalls == 3
MaxTeardowns == 2

(***************************************************************************)
(* The five category fields of a collected object, in the order in which   *)
(* rebuild_category_lists rewrites them.                                   *)
(***************************************************************************)
Categories == <<"attributes", "classes", "functions", "methods", "modules">>

CategorySet == {Categories[i] : i \in 1..Len(Categories)}

\* Keys a worker uses in a `children` mapping, and a path that is a key of
\* no `children` mapping.
Keys == {"a", "b"}

MissingPath == "zz"

Range(s) == {s[i] : i \in 1..Len(s)}

SeqsUpTo(S, n) == UNION {[1..k -> S] : k \in 0..n}

\* Sequences without repetition: the key orders a JSON object can have.
KeyOrders(n) == {s \in SeqsUpTo(Keys, n) : Cardinality(Range(s)) = Len(s)}

(***************************************************************************)
(* Flattened wire form (the value json.loads builds, seen as a nested      *)
(* value): `children` is a mapping, kept as the sequence of its items in   *)
(* iteration order; every category field is a sequence of paths.           *)
(***************************************************************************)
FlatNode(path, items, cats) ==
    [path |-> path,
     children |-> items,
     attributes |-> cats["attributes"],
     classes |-> cats["classes"],
     functions |-> cats["functions"],
     methods |-> cats["methods"],
     modules |-> cats["modules"]]

NoCats == [c \in CategorySet |-> <<>>]

\* Category fields of one node: nothing, or up to MaxRefs paths in one
\* category (repetitions allowed), drawn from `paths`.
CatChoices(paths) ==
    {NoCats} \cup
    {[NoCats EXCEPT ![c] = s] :
        c \in CategorySet, s \in (SeqsUpTo(paths, MaxRefs) \ {<<>>})}

\* A node with two references spread over two categories.
MixedCats(paths) ==
    {[NoCats EXCEPT !["classes"] = <<p>>, !["methods"] = <<q>>] :
        p \in paths, q \in paths}

RECURSIVE FlatTreesOf(_, _, _)
\* Flattened trees rooted at `path` with at most n nodes: no child, one
\* child (under one key, which key it is makes no difference to the code) or
\* two children in either key order; when `bad`, category fields may also
\* name MissingPath.
FlatTreesOf(path, n, bad) ==
    IF n = 0 THEN {}
    ELSE LET refs(ks) == Range(ks) \cup (IF bad THEN {MissingPath} ELSE {})
             leafs == {FlatNode(path, <<>>, c) : c \in CatChoices(refs(<<>>))}
             k == CHOOSE x \in Keys : TRUE
             one == {FlatNode(path, <<[key |-> k, node |-> t]>>, c) :
                        t \in FlatTreesOf(k, n - 1, bad),
                        c \in CatChoices(refs(<<k>>))}
             two == UNION {
                 {FlatNode(path,
                           <<[key |-> x[1][1], node |-> t1],
                             [key |-> x[1][2], node |-> t2]>>, c) :
                     t1 \in FlatTreesOf(x[1][1], x[2], bad),
                     t2 \in FlatTreesOf(x[1][2], n - 1 - x[2], bad),
                     c \in CatChoices(refs(x[1])) \cup MixedCats(refs(x[1]))} :
                 x \in {s \in KeyOrders(2) : Len(s) = 2} \X (1..(n - 2))}
         IN  leafs \cup one \cup two

(***************************************************************************)
(* json.loads builds a fresh dict for every JSON object: LoadNode stores   *)
(* the tree in the heap depth first and gives every node its own           *)
(* reference.  A loaded node holds                                         *)
(*   children         [kind |-> "mapping", items |-> <<[key, ref], ...>>]  *)
(*   <category field> [kind |-> "paths",   items |-> <<path, ...>>]        *)
(***************************************************************************)
Blank == [path |-> "", children |-> [kind |-> "mapping", items |-> <<>>]]

RECURSIVE LoadNode(_, _)
RECURSIVE LoadItems(_, _, _)

\* Loads the items of one `children` mapping, left to right; acc holds the
\* heap so far and the [key, ref] items already loaded.
LoadItems(acc, items, i) ==
    IF i > Len(items) THEN acc
    ELSE LET sub == LoadNode(acc.heap, items[i].node)
         IN  LoadItems([heap |-> sub.heap,
                        items |-> Append(acc.items,
                                         [key |-> items[i].key, ref |-> sub.ref])],
                       items, i + 1)

LoadNode(heap, t) ==
    LET ref == Len(heap) + 1
        sub == LoadItems([heap |-> Append(heap, Blank), items |-> <<>>],
                         t.children, 1)
        node == [path |-> t.path,
                 children |-> [kind |-> "mapping", items |-> sub.items],
                 attributes |-> [kind |-> "paths", items |-> t.attributes],
                 classes |-> [kind |-> "paths", items |-> t.classes],
                 functions |-> [kind |-> "paths", items |-> t.functions],
                 methods |-> [kind |-> "paths", items |-> t.methods],
                 modules |-> [kind |-> "paths", items |-> t.modules]]
    IN  [heap |-> [sub.heap EXCEPT ![ref] = node], ref |-> ref]

(***************************************************************************)
(* rebuild_category_lists.                                                 *)
(***************************************************************************)
\* A lookup that ignores the path and yields the first value of the mapping.
GetFirstItem(children, path) ==
    IF children.items # <<>> THEN children.items[1].ref ELSE 0

\* obj["children"][path] on a mapping: the value stored under the key, or
\* 0 when the key is absent (Python raises KeyError).
GetItem(children, path) ==
    IF \E i \in 1..Len(children.items) : children.items[i].key = path
    THEN children.items[
             CHOOSE i \in 1..Len(children.items) : children.items[i].key = path].ref
    ELSE 0

\* [obj["children"][path] for path in obj[field]]
CategoryList(obj, field) ==
    [kind |-> "nodes",
     items |-> [i \in 1..Len(obj[field].items) |->
                   GetItem(obj.children, obj[field].items[i])]]

\* The values of the mapping in reverse iteration order.
ReversedChildrenList(obj) ==
    [kind |-> "list",
     items |-> [i \in 1..Len(obj.children.items) |->
                   obj.children.items[Len(obj.children.items) + 1 - i].ref]]

\* [v for k, v in obj["children"].items()]
ChildrenList(obj) ==
    [kind |-> "list",
     items |-> [i \in 1..Len(obj.children.items) |-> obj.children.items[i].ref]]

\* The list comprehension of `field` raises KeyError.
Raises(obj, field) ==
    \E i \in 1..Len(obj[field].items) :
        GetItem(obj.children, obj[field].items[i]) = 0

RECURSIVE RebuildFields(_, _)
\* Lines 269-273: the category fields are rewritten one after the other,
\* from the k-th on; a KeyError leaves the fields assigned so far rewritten
\* and the others as they were.
RebuildFields(obj, k) ==
    IF k > Len(Categories) THEN [obj |-> obj, ok |-> TRUE]
    ELSE IF Raises(obj, Categories[k]) THEN [obj |-> obj, ok |-> FALSE]
    ELSE RebuildFields([obj EXCEPT ![Categories[k]] =
                                       CategoryList(obj, Categories[k])],
                       k + 1)

RECURSIVE rebuild_category_lists(_, _)
RECURSIVE RebuildChildren(_, _, _)

\* A loop that leaves the children as they are.
SkipChildren(st, refs, i) == st

\* Lines 275-276: the loop over the children list.
RebuildChildren(st, refs, i) ==
    IF i > Len(refs) \/ ~st.ok THEN st
    ELSE RebuildChildren(rebuild_category_lists(st, refs[i]), refs, i + 1)

\* st = [heap, visits, ok]: the heap, the references rebuild_category_lists
\* was invoked on so far (in order), and whether no KeyError was raised.
rebuild_category_lists(st, ref) ==
    LET entered == [st EXCEPT !.visits = Append(@, ref)]
        fields == RebuildFields(st.heap[ref], 1)
        obj == [fields.obj EXCEPT !.children = ChildrenList(fields.obj)]
    IN  IF ~fields.ok
        THEN [entered EXCEPT !.heap[ref] = fields.obj, !.ok = FALSE]
        ELSE RebuildChildren([entered EXCEPT !.heap[ref] = obj],
                             obj.children.items, 1)

(***************************************************************************)
(* Requests.  A mapping of options is kept as the set of its keys and one  *)
(* value per possible key (meaningful only when the key is present).       *)
(***************************************************************************)
OptionKeys == {"filters", "members", "path"}

Options(keys, filters, members, path) ==
    [keys |-> keys, filters |-> filters, members |-> members, path |-> path]

\* PythonCollector.DEFAULT_CONFIG as the class defines it.
DefaultConfig == Options({"filters"}, <<"!^_[^_]">>, "", "")

\* dict.update, and {**a, **b}: the keys of both, b's value where b has the key.
Update(a, b) ==
    [keys |-> a.keys \cup b.keys,
     filters |-> IF "filters" \in b.keys THEN b.filters ELSE a.filters,
     members |-> IF "members" \in b.keys THEN b.members ELSE a.members,
     path |-> IF "path" \in b.keys THEN b.path ELSE a.path]

\* Line 184: the only entry of the request's "objects" list.
RequestObject(identifier, final_config) ==
    Update(Options({"path"}, <<>>, "", identifier), final_config)

Identifiers == {"pkg.Foo", "pkg.mod"}

\* collect(identifier, {}): the caller gives no option.
NoOptions == Options({}, <<>>, "", "")

\* Line 180-181 without the copy: the class attribute itself is updated.
FinalConfigInPlace(defaults, config) ==
    [final_config |-> Update(defaults, config),
     defaults |-> Update(defaults, config)]

\* Lines 180-181: final_config is a copy of the defaults updated with the
\* caller's options; `defaults` is DEFAULT_CONFIG after the two lines.
FinalConfig(defaults, config) ==
    [final_config |-> Update(defaults, config),
     defaults |-> defaults]

Configs ==
    {Options({}, <<>>, "", ""),
     Options({"filters"}, <<>>, "", ""),
     Options({"members"}, <<>>, "m", ""),
     Options({"path"}, <<>>, "", "other")}

(***************************************************************************)
(* Response lines.  A line that json.loads accepts is kept decoded: the    *)
(* set of keys of the record and one value per recognised key; any other   *)
(* line is kept as its text.  `req` is not part of the line: it records    *)
(* which request line the worker was answering when it wrote the line.     *)
(***************************************************************************)
ResponseKeys == {"loading_errors", "parsing_errors", "objects"}

Record(keys, error, traceback, le, pe, objects) ==
    [kind |-> "json", req |-> 0, text |-> "{...}", keys |-> keys,
     error |-> error, traceback |-> traceback, loading_errors |-> le,
     parsing_errors |-> pe, objects |-> objects]

\* A line that is not JSON, and the empty string readline() returns at the
\* end of the stream.
Text(text) ==
    [kind |-> "text", req |-> 0, text |-> text, keys |-> {}, error |-> "",
     traceback |-> "", loading_errors |-> <<>>, parsing_errors |-> <<>>,
     objects |-> <<>>]

Garbage == Text("Traceback (most recent")

EndOfStream == Text("")

\* The tree of the worked example: class pkg.Foo with the method bar.
ScenarioTree ==
    FlatNode("pkg.Foo",
             <<[key |-> "pkg.Foo.bar",
                node |-> FlatNode("pkg.Foo.bar", <<>>, NoCats)]>>,
             [NoCats EXCEPT !["methods"] = <<"pkg.Foo.bar">>])

TwoChildren ==
    FlatNode("pkg.mod",
             <<[key |-> "b", node |-> FlatNode("b", <<>>, NoCats)],
               [key |-> "a",
                node |-> FlatNode("a",
                                  <<[key |-> "b",
                                     node |-> FlatNode("b", <<>>, NoCats)]>>,
                                  [NoCats EXCEPT !["attributes"] = <<"b", "b">>])]>>,
             [NoCats EXCEPT !["classes"] = <<"a">>, !["functions"] = <<"b">>])

\* A tree that breaks the worker's contract: a category path that is no key
\* of `children`.
BrokenTree ==
    FlatNode("pkg.mod",
             <<[key |-> "a", node |-> FlatNode("a", <<>>, NoCats)]>>,
             [NoCats EXCEPT !["classes"] = <<"a">>, !["methods"] = <<MissingPath>>])

LoadingErrors == {<<>>, <<"x">>, <<"x", "y">>}

\* parsing_errors: a mapping from path to a sequence of messages, kept as
\* the sequence of its items.
ParsingErrors ==
    {<<>>,
     <<[path |-> "p", errors |-> <<>>]>>,
     <<[path |-> "p", errors |-> <<"e1", "e2">>],
       [path |-> "q", errors |-> <<"e3">>]>>}

ObjectLists ==
    {<<>>, <<ScenarioTree>>, <<TwoChildren>>, <<BrokenTree>>,
     <<ScenarioTree, TwoChildren>>}

ErrorRecords ==
    {Record({"error"} \cup ks, m, "tb", <<>>, <<>>, <<>>) :
        m \in {"boom", ""}, ks \in {{}, {"traceback"}}}
    \cup
    {Record({"error"} \cup ks \cup ResponseKeys, "boom", "tb", le, pe, objs) :
        ks \in {{}, {"traceback"}},
        le \in {<<>>, <<"x">>},
        pe \in {<<>>, <<[path |-> "p", errors |-> <<"e1">>]>>},
        objs \in {<<>>, <<ScenarioTree>>}}

PlainRecords ==
    {Record(ResponseKeys, "", "", le, pe, objs) :
        le \in LoadingErrors, pe \in ParsingErrors, objs \in ObjectLists}

\* Records that lack one of the fields collect() subscripts.
PartialRecords ==
    {Record(ResponseKeys \ {k}, "", "", <<"x">>, <<>>, <<ScenarioTree>>) :
        k \in ResponseKeys}

Lines == ErrorRecords \cup PlainRecords \cup PartialRecords \cup {Garbage}

(***************************************************************************)
(* State.                                                                  *)
(***************************************************************************)
Callers == {1, 2}

VARIABLES
    DEFAULT_CONFIG, \* PythonCollector.DEFAULT_CONFIG (a mutable class attribute)
    process,        \* self.process and the state of the worker it refers to
    stdin,          \* request lines written and not yet taken by the worker
    stdout,         \* response lines written by the worker and not yet read
    served,         \* number of request lines the worker has taken
    pc,             \* per caller: "idle", "reading" (blocked in readline), "done"
    call,           \* per caller: the collect() call in progress
    outcome,        \* per caller: how its collect() call ended
    log,            \* per caller: what its collect() call logged
    rebuilt,        \* argument and effect of the last rebuild_category_lists
    written,        \* request lines written so far
    nread,          \* readline() calls that returned so far
    ncalls,         \* collect() calls started so far
    failed,         \* collect() calls that ended on a worker-reported error
    teardowns,      \* teardown() calls so far
    tdresult,       \* how the last teardown() ended
    instance,       \* the collector: whether __init__ ran, and how it ended
    worker          \* the worker's program and how far it has run

vars == <<DEFAULT_CONFIG, process, stdin, stdout, served, pc, call, outcome,
          log, rebuilt, written, nread, ncalls, failed, teardowns, tdresult,
          instance, worker>>

\* `config` and `object` are the options the call was given and the entry
\* of "objects" it wrote; `torn` is the number of teardown() calls before it.
NoCall ==
    [n |-> 0, index |-> 0, identifier |-> "", config |-> NoOptions,
     object |-> NoOptions, torn |-> 0, writes |-> 0, reads |-> 0]

NoOutcome ==
    [kind |-> "none", msg |-> "", args |-> <<>>, root |-> 0, req |-> 0,
     line |-> EndOfStream]

NoRebuild ==
    [done |-> FALSE, flat |-> <<>>, heap |-> <<>>, visits |-> <<>>,
     ok |-> TRUE, root |-> 0]

(***************************************************************************)
(* __init__, lines 131-150: the command line of the worker.  With setup    *)
(* commands the worker is a Python interpreter that runs the statements of *)
(* `commands` one after the other; without, it is pytkdocs itself.         *)
(***************************************************************************)
\* Setup commands placed before the redirection of sys.stdout.
CommandsRedirectedLate(setup_commands) ==
    IF setup_commands # <<>>
    THEN <<"import sys",
           "from io import StringIO",
           "from pytkdocs.cli import main as pytkdocs">>
         \o setup_commands
         \o <<"sys.stdout = StringIO()",
              "sys.stdout.flush()",
              "sys.stdout = sys.__stdout__",
              "pytkdocs(['--line-by-line'])">>
    ELSE <<"pytkdocs --line-by-line">>

\* Lines 131-146; None and the empty list are both kept as <<>>.
Commands(setup_commands) ==
    IF setup_commands # <<>>
    THEN <<"import sys",
           "from io import StringIO",
           "from pytkdocs.cli import main as pytkdocs",
           "sys.stdout = StringIO()">>
         \o setup_commands
         \o <<"sys.stdout.flush()",
              "sys.stdout = sys.__stdout__",
              "pytkdocs(['--line-by-line'])">>
    ELSE <<"pytkdocs --line-by-line">>

\* Setup commands a caller passes: two that print, one that does not.
PrintCommand == "print('loading')"

ReadyCommand == "print('ready')"

SetupCommandLists ==
    {<<>>, <<PrintCommand>>, <<"import os", PrintCommand>>,
     <<PrintCommand, "import os">>, <<PrintCommand, ReadyCommand>>}

\* The statement starts the request-serving loop of pytkdocs.
Serves(statement) ==
    statement \in {"pytkdocs(['--line-by-line'])", "pytkdocs --line-by-line"}

\* The worker right after it was launched with the program `cmd`: nothing
\* has run, sys.stdout is the pipe to the collector.
Launched(cmd) ==
    [program |-> cmd, at |-> 1, sys_stdout |-> "pipe", buffer |-> <<>>,
     serving |-> FALSE]

\* The worker once the last statement of its program runs the serving loop.
Serving(cmd) ==
    [program |-> cmd, at |-> Len(cmd), sys_stdout |-> "pipe", buffer |-> <<>>,
     serving |-> TRUE]

NoWorker == [program |-> <<>>, at |-> 0, sys_stdout |-> "pipe", buffer |-> <<>>,
             serving |-> FALSE]

\* Two workers launched by one __init__.
StartedTwice(inst, setup_commands) ==
    [state |-> "usable", spawned |-> inst.spawned + 2, error |-> "none"]

\* Lines 148-150, Popen succeeded: one more process, self.process set.
Started(inst, setup_commands) ==
    [state |-> "usable", spawned |-> inst.spawned + 1, error |-> "none"]

\* A launch failure that is swallowed: the collector is handed out without
\* a process.
LaunchFailureIgnored(inst) ==
    [state |-> "usable", spawned |-> inst.spawned, error |-> "none"]

\* Lines 148-150, Popen raised (the executable cannot be launched): the
\* exception leaves __init__ and get_handler, no collector is returned.
LaunchFailure(inst) ==
    [state |-> "failed", spawned |-> inst.spawned, error |-> "FileNotFoundError"]

\* The state after __init__ without setup commands (lines 146-150), once the
\* worker has reached its serving loop: self.process refers to the worker.
Init ==
    /\ DEFAULT_CONFIG = DefaultConfig
    /\ process = [handle |-> "Popen", signalled |-> FALSE, alive |-> TRUE]
    /\ stdin = <<>>
    /\ stdout = <<>>
    /\ served = 0
    /\ pc = [c \in Callers |-> "idle"]
    /\ call = [c \in Callers |-> NoCall]
    /\ outcome = [c \in Callers |-> NoOutcome]
    /\ log = [c \in Callers |-> <<>>]
    /\ rebuilt = NoRebuild
    /\ written = 0
    /\ nread = 0
    /\ ncalls = 0
    /\ failed = 0
    /\ teardowns = 0
    /\ tdresult = "none"
    /\ instance = [state |-> "usable", spawned |-> 1, error |-> "none"]
    /\ worker = Serving(Commands(<<>>))

(***************************************************************************)
(* collect(), lines 192-221: what the call does with the line it read.     *)
(***************************************************************************)
\* str(exception) of the JSONDecodeError json.loads raises on a line that
\* does not start a JSON value (line 197).
DecodeMessage == "Expecting value: line 1 column 1 (char 0)"

Warning(text) == [level |-> "warning", text |-> <<text>>]

\* Lines 206-208.
LoadingWarnings(result) ==
    [i \in 1..Len(result.loading_errors) |-> Warning(result.loading_errors[i])]

RECURSIVE ParsingWarningsFrom(_, _)
RECURSIVE ParsingWarningPerPath(_, _)

\* One warning per path: the first message of each sequence.
ParsingWarningPerPath(items, k) ==
    IF k > Len(items) THEN <<>>
    ELSE [i \in 1..(IF items[k].errors = <<>> THEN 0 ELSE 1) |->
             Warning(items[k].errors[i])]
         \o ParsingWarningPerPath(items, k + 1)

\* Lines 210-213: the items of parsing_errors from the k-th on.
ParsingWarningsFrom(items, k) ==
    IF k > Len(items) THEN <<>>
    ELSE [i \in 1..Len(items[k].errors) |-> Warning(items[k].errors[i])]
         \o ParsingWarningsFrom(items, k + 1)

ParsingWarnings(result) == ParsingWarningsFrom(result.parsing_errors, 1)

\* How a call ends: for an exception, `args` is what it was raised with.
Ending(kind, msg, entries, rb) ==
    [kind |-> kind, msg |-> msg,
     args |-> IF kind = "return" THEN <<>> ELSE <<msg>>,
     log |-> entries, rebuilt |-> rb]

\* Lines 216-221, rb being the last rebuild before the call.
Extract(result, entries, rb) ==
    IF "objects" \notin result.keys THEN Ending("KeyError", "objects", entries, rb)
    ELSE IF result.objects = <<>>
    THEN Ending("IndexError", "list index out of range", entries, rb)
    ELSE LET loaded == LoadNode(<<>>, result.objects[1])
             after == rebuild_category_lists(
                          [heap |-> loaded.heap, visits |-> <<>>, ok |-> TRUE],
                          loaded.ref)
             this == [done |-> TRUE, flat |-> loaded.heap, heap |-> after.heap,
                      visits |-> after.visits, ok |-> after.ok,
                      root |-> loaded.ref]
         IN  IF after.ok THEN Ending("return", "", entries, this)
             ELSE Ending("KeyError", "children", entries, this)

\* Line 194: json.loads accepts the line.
Decodes(line) == line.kind = "json"

\* A CollectionError raised with the decode error and the raw line.
DecodeFailureWithRawText(line, rb) ==
    [Ending("CollectionError", DecodeMessage,
            <<[level |-> "error", text |-> <<line.text>>]>>, rb)
        EXCEPT !.args = <<DecodeMessage, line.text>>]

\* A decode failure that is not caught.
UncaughtDecodeFailure(line, rb) ==
    Ending("JSONDecodeError", DecodeMessage, <<>>, rb)

\* Lines 195-197: the raw line is logged, the CollectionError carries the
\* text of the decode error.
DecodeFailure(line, rb) ==
    Ending("CollectionError", DecodeMessage,
           <<[level |-> "error", text |-> <<line.text>>]>>, rb)

\* A test that takes an empty message for no error.
HasNonEmptyError(result) == "error" \in result.keys /\ result.error # ""

\* Line 199.
HasError(result) == "error" \in result.keys

\* Lines 200-204.
WorkerError(result, rb) ==
    Ending("CollectionError", result.error,
           <<[level |-> "error",
              text |-> IF "traceback" \in result.keys
                       THEN <<result.error, result.traceback>>
                       ELSE <<result.error>>]>>, rb)

\* Lines 192-221.
Classify(line, rb) ==
    IF ~Decodes(line) THEN DecodeFailure(line, rb)
    ELSE IF HasError(line) THEN WorkerError(line, rb)
    ELSE IF "loading_errors" \notin line.keys
    THEN Ending("KeyError", "loading_errors", <<>>, rb)
    ELSE IF "parsing_errors" \notin line.keys
    THEN Ending("KeyError", "parsing_errors", LoadingWarnings(line), rb)
    ELSE Extract(line, LoadingWarnings(line) \o ParsingWarnings(line), rb)

(***************************************************************************)
(* teardown(), lines 223-226: Popen.terminate() signals the worker unless  *)
(* it is known to have exited; self.process keeps referring to it.         *)
(***************************************************************************)
\* A teardown that does what its docstring says: "set it to None".
TeardownSetsNone(p) ==
    IF p.handle = "None"
    THEN [process |-> p, result |-> "AttributeError"]
    ELSE [process |-> [handle |-> "None", signalled |-> TRUE, alive |-> p.alive],
          result |-> "ok"]

teardown(p) ==
    IF p.handle = "None"
    THEN [process |-> p, result |-> "AttributeError"]
    ELSE [process |-> IF p.alive THEN [p EXCEPT !.signalled = TRUE] ELSE p,
          result |-> "ok"]

(***************************************************************************)
(* Actions.                                                                *)
(***************************************************************************)
\* A request line written twice.
WriteLineTwice(in, line) == in \o <<line, line>>

\* Line 187: print(json_input, file=self.process.stdin, flush=True).
WriteLine(in, line) == Append(in, line)

\* A read that leaves the line in the stream.
PeekLine(out) ==
    IF out # <<>> THEN [line |-> Head(out), rest |-> out]
    ELSE [line |-> EndOfStream, rest |-> out]

\* Line 190: self.process.stdout.readline() once a line, or the end of the
\* stream, is there.
ReadLine(out) ==
    IF out # <<>> THEN [line |-> Head(out), rest |-> Tail(out)]
    ELSE [line |-> EndOfStream, rest |-> out]

\* collect(), lines 180-187, by caller c: the request line is built and
\* written to the worker's standard input.  When the worker has exited the
\* pipe has no reader and the flush raises BrokenPipeError.
CollectWrite(c, identifier, config) ==
    /\ instance.state = "usable"
    /\ pc[c] = "idle"
    /\ ncalls < MaxCalls
    /\ ncalls' = ncalls + 1
    /\ DEFAULT_CONFIG' = FinalConfig(DEFAULT_CONFIG, config).defaults
    /\ LET final_config == FinalConfig(DEFAULT_CONFIG, config).final_config
           json_input == [n |-> written + 1,
                          object |-> RequestObject(identifier, final_config)]
           started == [NoCall EXCEPT !.index = ncalls + 1,
                                     !.identifier = identifier,
                                     !.config = config,
                                     !.torn = teardowns]
       IN  IF process.handle = "None"
           THEN /\ pc' = [pc EXCEPT ![c] = "done"]
                /\ call' = [call EXCEPT ![c] = started]
                /\ outcome' = [outcome EXCEPT ![c] =
                                  [NoOutcome EXCEPT !.kind = "AttributeError"]]
                /\ UNCHANGED <<stdin, written>>
           ELSE IF process.alive
           THEN /\ stdin' = WriteLine(stdin, json_input)
                /\ written' = written + (Len(stdin') - Len(stdin))
                /\ pc' = [pc EXCEPT ![c] = "reading"]
                /\ call' = [call EXCEPT ![c] =
                               [started EXCEPT
                                    !.n = written + 1,
                                    !.object = json_input.object,
                                    !.writes = Len(stdin') - Len(stdin)]]
                /\ UNCHANGED outcome
           ELSE /\ pc' = [pc EXCEPT ![c] = "done"]
                /\ call' = [call EXCEPT ![c] = started]
                /\ outcome' = [outcome EXCEPT ![c] =
                                  [NoOutcome EXCEPT !.kind = "BrokenPipeError"]]
                /\ UNCHANGED <<stdin, written>>
    /\ UNCHANGED <<process, stdout, served, log, rebuilt,
                   nread, failed, teardowns, tdresult>>
    /\ UNCHANGED <<instance, worker>>

\* A readline() that gives up waiting: it returns whether or not there is
\* something to read.
ReadTimesOut(out, p) == TRUE

\* Line 190: readline() returns once there is a line to read or the worker
\* has closed its output; no timeout is set on the pipe.
ReadReturns(out, p) == out # <<>> \/ ~p.alive

\* collect(), lines 190-221, by caller c: readline() returns the next line
\* of the worker's output, or "" when the worker has exited and nothing is
\* left to read; it blocks otherwise.
CollectRead(c) ==
    /\ pc[c] = "reading"
    /\ ReadReturns(stdout, process)
    /\ LET line == ReadLine(stdout).line
           end == Classify(line, rebuilt)
       IN  /\ stdout' = ReadLine(stdout).rest
           /\ outcome' = [outcome EXCEPT ![c] =
                             [kind |-> end.kind, msg |-> end.msg,
                              args |-> end.args,
                              root |-> IF end.kind = "return"
                                       THEN end.rebuilt.root ELSE 0,
                              req |-> line.req, line |-> line]]
           /\ log' = [log EXCEPT ![c] = end.log]
           /\ rebuilt' = end.rebuilt
           /\ failed' = IF Decodes(line) /\ HasError(line)
                        THEN failed + 1 ELSE failed
    /\ nread' = nread + 1
    /\ call' = [call EXCEPT ![c].reads = @ + 1]
    /\ pc' = [pc EXCEPT ![c] = "done"]
    /\ UNCHANGED <<DEFAULT_CONFIG, process, stdin, served, written, ncalls,
                   teardowns, tdresult>>
    /\ UNCHANGED <<instance, worker>>

\* The caller has its result or its exception; it is free to call again.
Return(c) ==
    /\ pc[c] = "done"
    /\ pc' = [pc EXCEPT ![c] = "idle"]
    /\ call' = [call EXCEPT ![c] = NoCall]
    /\ outcome' = [outcome EXCEPT ![c] = NoOutcome]
    /\ log' = [log EXCEPT ![c] = <<>>]
    /\ UNCHANGED <<DEFAULT_CONFIG, process, stdin, stdout, served, rebuilt,
                   written, nread, ncalls, failed, teardowns, tdresult>>
    /\ UNCHANGED <<instance, worker>>

\* teardown() by caller c.
Teardown(c) ==
    /\ instance.state = "usable"
    /\ pc[c] = "idle"
    /\ teardowns < MaxTeardowns
    /\ teardowns' = teardowns + 1
    /\ process' = teardown(process).process
    /\ tdresult' = teardown(process).result
    /\ UNCHANGED <<DEFAULT_CONFIG, stdin, stdout, served, pc, call, outcome,
                   log, rebuilt, written, nread, ncalls, failed>>
    /\ UNCHANGED <<instance, worker>>

\* The worker (pytkdocs --line-by-line) takes one request line and writes
\* one response line, one of `lines`.
WorkerRespond(lines) ==
    /\ process.alive
    /\ worker.serving
    /\ stdin # <<>>
    /\ \E line \in lines :
           stdout' = Append(stdout, [line EXCEPT !.req = Head(stdin).n])
    /\ stdin' = Tail(stdin)
    /\ served' = served + 1
    /\ UNCHANGED <<DEFAULT_CONFIG, process, pc, call, outcome, log, rebuilt,
                   written, nread, ncalls, failed, teardowns, tdresult>>
    /\ UNCHANGED <<instance, worker>>

\* The signalled worker ends: its end of the pipes is closed, the requests
\* it had not taken are lost, what it had written can still be read.
WorkerExit ==
    /\ process.alive
    /\ process.signalled
    /\ process' = [process EXCEPT !.alive = FALSE]
    /\ stdin' = <<>>
    /\ UNCHANGED <<DEFAULT_CONFIG, stdout, served, pc, call, outcome, log,
                   rebuilt, written, nread, ncalls, failed, teardowns, tdresult>>
    /\ UNCHANGED <<instance, worker>>

\* One caller: collect() and teardown() are called one after the other.
Next ==
    \/ \E identifier \in Identifiers, config \in Configs :
           CollectWrite(1, identifier, config)
    \/ CollectRead(1)
    \/ Return(1)
    \/ Teardown(1)
    \/ WorkerRespond(Lines)
    \/ WorkerExit

Spec == Init /\ [][Next]_vars

\* Two callers that nothing serializes: each is at its own place in
\* collect(), the steps of the two interleave.
ConcLines ==
    {Record(ResponseKeys, "", "", <<>>, <<>>, <<ScenarioTree>>),
     Record(ResponseKeys, "", "", <<"x">>, <<>>, <<TwoChildren>>),
     Record({"error"}, "boom", "", <<>>, <<>>, <<>>),
     Garbage}

NextConc ==
    \/ \E c \in Callers, identifier \in Identifiers :
           CollectWrite(c, identifier, NoOptions)
    \/ \E c \in Callers : CollectRead(c)
    \/ \E c \in Callers : Return(c)
    \/ \E c \in Callers : Teardown(c)
    \/ WorkerRespond(ConcLines)
    \/ WorkerExit

SpecConc == Init /\ [][NextConc]_vars

(***************************************************************************)
(* Construction and start-up of the worker.                                *)
(***************************************************************************)
\* Before get_handler() is called: no collector, no worker.
InitStart ==
    /\ DEFAULT_CONFIG = DefaultConfig
    /\ process = [handle |-> "None", signalled |-> FALSE, alive |-> FALSE]
    /\ stdin = <<>>
    /\ stdout = <<>>
    /\ served = 0
    /\ pc = [c \in Callers |-> "idle"]
    /\ call = [c \in Callers |-> NoCall]
    /\ outcome = [c \in Callers |-> NoOutcome]
    /\ log = [c \in Callers |-> <<>>]
    /\ rebuilt = NoRebuild
    /\ written = 0
    /\ nread = 0
    /\ ncalls = 0
    /\ failed = 0
    /\ teardowns = 0
    /\ tdresult = "none"
    /\ instance = [state |-> "unborn", spawned |-> 0, error |-> "none"]
    /\ worker = NoWorker

\* get_handler() / PythonCollector.__init__ (lines 114-150, 247-250).  Popen
\* either starts the worker or raises because the executable cannot be
\* launched.
Construct(setup_commands, launchable) ==
    /\ instance.state = "unborn"
    /\ IF launchable
       THEN /\ instance' = Started(instance, setup_commands)
            /\ process' = [handle |-> "Popen", signalled |-> FALSE, alive |-> TRUE]
            /\ worker' = Launched(Commands(setup_commands))
       ELSE /\ instance' = LaunchFailure(instance)
            /\ UNCHANGED <<process, worker>>
    /\ UNCHANGED <<DEFAULT_CONFIG, stdin, stdout, served, pc, call, outcome,
                   log, rebuilt, written, nread, ncalls, failed, teardowns,
                   tdresult>>

\* What a statement of the worker's program writes with print().
Printed(statement) ==
    IF statement = PrintCommand THEN <<"loading">>
    ELSE IF statement = ReadyCommand THEN <<"ready">>
    ELSE <<>>

\* The worker runs the next statement of its program: sys.stdout is
\* redirected or restored, a print() goes to whatever sys.stdout is, the
\* last statement enters the serving loop.
WorkerStartup ==
    /\ process.alive
    /\ ~worker.serving
    /\ worker.at <= Len(worker.program)
    /\ LET statement == worker.program[worker.at]
           text == Printed(statement)
       IN  /\ worker' =
                  [worker EXCEPT
                      !.at = IF Serves(statement) THEN @ ELSE @ + 1,
                      !.serving = Serves(statement),
                      !.sys_stdout =
                          IF statement = "sys.stdout = StringIO()" THEN "buffer"
                          ELSE IF statement = "sys.stdout = sys.__stdout__"
                          THEN "pipe" ELSE @,
                      !.buffer = IF worker.sys_stdout = "buffer"
                                 THEN @ \o text ELSE @]
           /\ stdout' = IF worker.sys_stdout = "pipe"
                        THEN stdout \o [i \in 1..Len(text) |-> Text(text[i])]
                        ELSE stdout
    /\ UNCHANGED <<DEFAULT_CONFIG, process, stdin, served, pc, call, outcome,
                   log, rebuilt, written, nread, ncalls, failed, teardowns,
                   tdresult, instance>>


NextStart ==
    \/ \E setup_commands \in SetupCommandLists, launchable \in BOOLEAN :
           Construct(setup_commands, launchable)
    \/ WorkerStartup
    \/ \E identifier \in Identifiers : CollectWrite(1, identifier, NoOptions)
    \/ CollectRead(1)
    \/ Return(1)
    \/ Teardown(1)
    \/ WorkerRespond(ConcLines)
    \/ WorkerExit

SpecStart == InitStart /\ [][NextStart]_vars

(***************************************************************************)
(* rebuild_category_lists on its own: it is applied once to a freshly      *)
(* loaded flattened tree.                                                  *)
(***************************************************************************)
\* Trees that keep the worker's contract (every category path is a key of
\* the node's `children`), and trees that may break it.
FlatTrees == FlatTreesOf("root", MaxNodes, FALSE)

BadTrees == FlatTreesOf("root", 2, TRUE) \ FlatTrees

Loaded(t) ==
    [done |-> FALSE, flat |-> LoadNode(<<>>, t).heap,
     heap |-> LoadNode(<<>>, t).heap, visits |-> <<>>, ok |-> TRUE,
     root |-> LoadNode(<<>>, t).ref]

InitRebuild ==
    /\ DEFAULT_CONFIG = DefaultConfig
    /\ process = [handle |-> "Popen", signalled |-> FALSE, alive |-> TRUE]
    /\ stdin = <<>>
    /\ stdout = <<>>
    /\ served = 0
    /\ pc = [c \in Callers |-> "idle"]
    /\ call = [c \in Callers |-> NoCall]
    /\ outcome = [c \in Callers |-> NoOutcome]
    /\ log = [c \in Callers |-> <<>>]
    /\ rebuilt \in {Loaded(t) : t \in FlatTrees \cup BadTrees}
    /\ written = 0
    /\ nread = 0
    /\ ncalls = 0
    /\ failed = 0
    /\ teardowns = 0
    /\ tdresult = "none"
    /\ instance = [state |-> "usable", spawned |-> 1, error |-> "none"]
    /\ worker = Serving(Commands(<<>>))

\* rebuild_category_lists(obj) on the loaded tree.
Rebuild ==
    /\ ~rebuilt.done
    /\ rebuilt.root # 0
    /\ LET after == rebuild_category_lists(
                        [heap |-> rebuilt.heap, visits |-> <<>>, ok |-> TRUE],
                        rebuilt.root)
       IN  rebuilt' = [rebuilt EXCEPT !.done = TRUE, !.heap = after.heap,
                                      !.visits = after.visits, !.ok = after.ok]
    /\ UNCHANGED <<DEFAULT_CONFIG, process, stdin, stdout, served, pc, call,
                   outcome, log, written, nread, ncalls, failed, teardowns,
                   tdresult>>
    /\ UNCHANGED <<instance, worker>>

NextRebuild == Rebuild

SpecRebuild == InitRebuild /\ [][NextRebuild]_vars

(***************************************************************************)
(* Properties of rebuild_category_lists.                                   *)
(***************************************************************************)
Nodes(heap) == 1..Len(heap)

\* The flattened tree keeps the worker's contract: every path of every
\* category field of a node is a key of that node's `children` mapping.
HasCategoryPaths(flat) ==
    \A n \in Nodes(flat) : \A c \in CategorySet :
        \A i \in 1..Len(flat[n][c].items) :
            \E j \in 1..Len(flat[n].children.items) :
                flat[n].children.items[j].key = flat[n][c].items[i]

RebuiltFromContract == rebuilt.done /\ HasCategoryPaths(rebuilt.flat)

\* C4: after rebuild, every element of every category list of every node is
\* the very object (same reference) that the node's children list holds for
\* the path the category field named.
CategoryElementsAreChildren ==
    RebuiltFromContract =>
        \A n \in Nodes(rebuilt.heap) : \A c \in CategorySet :
            /\ rebuilt.heap[n][c].kind = "nodes"
            /\ rebuilt.heap[n].children.kind = "list"
            /\ \A i \in 1..Len(rebuilt.heap[n][c].items) :
                   \E j \in 1..Len(rebuilt.heap[n].children.items) :
                       /\ rebuilt.flat[n].children.items[j].key =
                              rebuilt.flat[n][c].items[i]
                       /\ rebuilt.heap[n].children.items[j] =
                              rebuilt.heap[n][c].items[i]

\* A rebuilt node with two children, one of whose category lists holds the
\* second child.
CategoryHoldsSecondChild ==
    /\ RebuiltFromContract
    /\ \E n \in Nodes(rebuilt.heap) : \E c \in CategorySet :
           /\ Len(rebuilt.heap[n].children.items) = 2
           /\ rebuilt.heap[n][c].kind = "nodes"
           /\ rebuilt.heap[n].children.items[2] \in Range(rebuilt.heap[n][c].items)

\* C5: rebuild keeps the order: the i-th node of a rebuilt category list has
\* the path that was the i-th entry of the field (same length, repetitions
\* kept), and the children list holds the values of the mapping in the
\* mapping's iteration order.
RebuildKeepsOrder ==
    RebuiltFromContract =>
        \A n \in Nodes(rebuilt.heap) :
            /\ \A c \in CategorySet :
                   /\ Len(rebuilt.heap[n][c].items) = Len(rebuilt.flat[n][c].items)
                   /\ \A i \in 1..Len(rebuilt.flat[n][c].items) :
                          rebuilt.heap[rebuilt.heap[n][c].items[i]].path =
                              rebuilt.flat[n][c].items[i]
            /\ Len(rebuilt.heap[n].children.items) =
                   Len(rebuilt.flat[n].children.items)
            /\ \A j \in 1..Len(rebuilt.flat[n].children.items) :
                   rebuilt.heap[n].children.items[j] =
                       rebuilt.flat[n].children.items[j].ref

\* A rebuilt node with two children whose category field named the second
\* child before the first, or the same child twice.
CategoryOrderMatters ==
    /\ RebuiltFromContract
    /\ \E n \in Nodes(rebuilt.heap) : \E c \in CategorySet :
           /\ Len(rebuilt.heap[n].children.items) = 2
           /\ Len(rebuilt.heap[n][c].items) = 2
           /\ \/ /\ rebuilt.heap[n][c].items[1] = rebuilt.heap[n].children.items[2]
                 /\ rebuilt.heap[n][c].items[2] = rebuilt.heap[n].children.items[1]
              \/ rebuilt.heap[n][c].items[1] = rebuilt.heap[n][c].items[2]

RECURSIVE ChildrenEntries(_, _)
\* Number of entries of the `children` mappings of the nodes 1..n.
ChildrenEntries(flat, n) ==
    IF n = 0 THEN 0
    ELSE Len(flat[n].children.items) + ChildrenEntries(flat, n - 1)

\* C6: rebuild ends having been invoked once on each node (as many
\* invocations as there are `children` entries in the whole tree, plus one
\* for the root, no node twice), and every node, not only the root, is then
\* in reconstructed form.
EveryNodeRebuiltOnce ==
    RebuiltFromContract =>
        /\ rebuilt.ok
        /\ Len(rebuilt.visits) = ChildrenEntries(rebuilt.flat, Len(rebuilt.flat)) + 1
        /\ Cardinality(Range(rebuilt.visits)) = Len(rebuilt.visits)
        /\ Range(rebuilt.visits) = Nodes(rebuilt.heap)
        /\ \A n \in Nodes(rebuilt.heap) :
               /\ rebuilt.heap[n].children.kind = "list"
               /\ \A c \in CategorySet : rebuilt.heap[n][c].kind = "nodes"

\* A rebuilt tree of three levels: a child of the root has a child itself.
GrandchildRebuilt ==
    /\ RebuiltFromContract
    /\ \E n \in Nodes(rebuilt.heap) :
           /\ n # rebuilt.root
           /\ rebuilt.heap[n].children.kind = "list"
           /\ rebuilt.heap[n].children.items # <<>>

(***************************************************************************)
(* Properties of collect() and teardown().                                 *)
(***************************************************************************)
\* Caller c has read a line and its call has ended.
Ended(c) == pc[c] = "done" /\ call[c].reads = 1

\* C1: a decoded response with an `error` field of message m makes collect
\* raise a CollectionError of message m and return no tree, whatever the
\* other fields of the response are.
ErrorFieldRaises ==
    \A c \in Callers :
        (/\ Ended(c)
         /\ outcome[c].line.kind = "json"
         /\ "error" \in outcome[c].line.keys)
        => /\ outcome[c].kind = "CollectionError"
           /\ outcome[c].msg = outcome[c].line.error
           /\ outcome[c].root = 0

\* A call ended on a response that has an `error` field next to warnings
\* and a collected object.
ErrorNextToObjects ==
    \E c \in Callers :
        /\ Ended(c)
        /\ outcome[c].kind = "CollectionError"
        /\ "error" \in outcome[c].line.keys
        /\ outcome[c].line.objects # <<>>
        /\ outcome[c].line.loading_errors # <<>>

RECURSIVE ParsingErrorCount(_)
\* Number of messages in all the sequences of a parsing_errors mapping.
ParsingErrorCount(items) ==
    IF items = <<>> THEN 0
    ELSE Len(Head(items).errors) + ParsingErrorCount(Tail(items))

\* Caller c's call has read a response without `error` whose loading_errors
\* or parsing_errors is not empty.
Warned(c) ==
    /\ Ended(c)
    /\ outcome[c].line.kind = "json"
    /\ "error" \notin outcome[c].line.keys
    /\ {"loading_errors", "parsing_errors"} \subseteq outcome[c].line.keys
    /\ \/ outcome[c].line.loading_errors # <<>>
       \/ outcome[c].line.parsing_errors # <<>>

\* One warning per entry of loading_errors and per entry of every sequence
\* of parsing_errors, and nothing else logged.
OneWarningPerEntry(c) ==
    LET line == outcome[c].line
    IN  /\ Len(log[c]) =
               Len(line.loading_errors) + ParsingErrorCount(line.parsing_errors)
        /\ \A i \in 1..Len(log[c]) : log[c][i].level = "warning"
        /\ \A i \in 1..Len(line.loading_errors) :
               log[c][i].text = <<line.loading_errors[i]>>
        /\ \A k \in 1..Len(line.parsing_errors) :
               \A i \in 1..Len(line.parsing_errors[k].errors) :
                   \E j \in 1..Len(log[c]) :
                       /\ j > Len(line.loading_errors)
                       /\ log[c][j].text = <<line.parsing_errors[k].errors[i]>>

\* C2 as stated: every call whose response has no `error` field and some
\* loading or parsing errors reports one warning per entry, succeeds and
\* returns the reconstructed tree.
WarningsImplySuccess ==
    \A c \in Callers :
        Warned(c) => OneWarningPerEntry(c) /\ outcome[c].kind = "return"

\* The response holds a collected object that keeps the category-path
\* contract.
HasSoundObject(line) ==
    /\ "objects" \in line.keys
    /\ line.objects # <<>>
    /\ HasCategoryPaths(LoadNode(<<>>, line.objects[1]).heap)

\* C2 (amended): loading and parsing errors are reported, one warning per
\* entry, and do not abort the call: when `objects` holds a flattened tree
\* that keeps the category-path contract collect returns that tree rebuilt.
WarningsNeverAbort ==
    \A c \in Callers :
        Warned(c) =>
            /\ OneWarningPerEntry(c)
            /\ HasSoundObject(outcome[c].line) =>
                   /\ outcome[c].kind = "return"
                   /\ outcome[c].root # 0
                   /\ rebuilt.done /\ rebuilt.ok
                   /\ rebuilt.flat = LoadNode(<<>>, outcome[c].line.objects[1]).heap

\* A call returned a tree after warnings for loading errors and for the
\* parsing errors of two paths.
ReturnedWithWarnings ==
    \E c \in Callers :
        /\ Warned(c)
        /\ outcome[c].kind = "return"
        /\ Len(outcome[c].line.loading_errors) = 2
        /\ Len(outcome[c].line.parsing_errors) = 2
        /\ Len(log[c]) = 5

\* C3: when the line read is not JSON (the empty line of the end of the
\* stream included) collect raises CollectionError; the step neither
\* changes the worker process nor writes the request again nor reads
\* another line.
DecodeFailureLeavesWorker ==
    [][\A c \in Callers :
           (/\ pc[c] = "reading"
            /\ pc'[c] = "done"
            /\ outcome'[c].line.kind = "text")
           => /\ outcome'[c].kind = "CollectionError"
              /\ outcome'[c].root = 0
              /\ process' = process
              /\ stdin' = stdin
              /\ written' = written
              /\ nread' = nread + 1
              /\ call'[c].writes = 1
              /\ call'[c].reads = 1
              /\ Len(stdout') >= Len(stdout) - 1]_vars

\* A call raised CollectionError on a line that is not JSON while the
\* worker runs and was never signalled.
GarbageLineRaised ==
    \E c \in Callers :
        /\ Ended(c)
        /\ outcome[c].line = [Garbage EXCEPT !.req = call[c].n]
        /\ outcome[c].kind = "CollectionError"
        /\ process = [handle |-> "Popen", signalled |-> FALSE, alive |-> TRUE]

\* C7: with two callers that nothing serializes, no caller ends its call on
\* the response the worker wrote for the other caller's request.
EachCallerGetsItsOwnResponse ==
    \A c \in Callers :
        (Ended(c) /\ outcome[c].req # 0) => outcome[c].req = call[c].n

\* C8: with one caller, the N-th call reads the response to the N-th
\* request line, also after calls that failed on a worker-reported error:
\* the line it reads is the worker's answer to its own request, and while
\* the worker runs it is never the end of the stream.
NthCallGetsNthResponse ==
    \A c \in Callers :
        (Ended(c) /\ (process.alive \/ outcome[c].req # 0))
        => /\ outcome[c].req = call[c].index
           /\ call[c].n = call[c].index
           /\ stdout = <<>>

\* A call returned the tree of its own request after an earlier call had
\* failed on a worker-reported error.
CorrelatedAfterWorkerError ==
    \E c \in Callers :
        /\ Ended(c)
        /\ failed >= 1
        /\ call[c].index >= 2
        /\ outcome[c].kind = "return"
        /\ outcome[c].req = call[c].index

\* C9 as stated: every call, whatever its outcome, has written one request
\* line and read one line.
OneWriteOneReadPerCall ==
    \A c \in Callers :
        pc[c] = "done" => call[c].writes = 1 /\ call[c].reads = 1

\* C9 (amended): a call whose write succeeds writes one request line and
\* then reads one line, whatever its outcome; a call whose write fails
\* because the worker has exited reads nothing; no call writes or reads
\* twice, so between calls as many lines were read as were written.
OneReadPerWrittenLine ==
    /\ \A c \in Callers :
           pc[c] = "done" =>
               IF outcome[c].kind = "BrokenPipeError"
               THEN call[c].writes = 0 /\ call[c].reads = 0
               ELSE call[c].writes = 1 /\ call[c].reads = 1
    /\ \A c \in Callers : pc[c] = "reading" => call[c].writes = 1
    /\ (\A c \in Callers : pc[c] # "reading") => written = nread

\* A second call ended on a structural failure (KeyError or IndexError)
\* after one write and one read.
StructuralFailureAfterOneExchange ==
    \E c \in Callers :
        /\ Ended(c)
        /\ outcome[c].kind \in {"KeyError", "IndexError"}
        /\ written = 2
        /\ nread = 2

\* C10: teardown never fails, and a teardown after an earlier teardown (the
\* worker signalled, or already exited) changes nothing.
TeardownIsIdempotent ==
    [][teardowns' = teardowns + 1 =>
           /\ tdresult' = "ok"
           /\ teardowns >= 1 =>
                  /\ process' = process
                  /\ <<stdin, stdout, pc, call, outcome>>' =
                         <<stdin, stdout, pc, call, outcome>>]_vars

\* teardown was called a second time after the worker had exited.
TornDownTwice ==
    /\ teardowns >= 2
    /\ tdresult = "ok"
    /\ ~process.alive


(***************************************************************************)
(* Properties of the construction and of the worker's life.                *)
(***************************************************************************)
\* C11: a collector starts one worker process and no more: from its
\* construction to its first teardown self.process refers to that one
\* process, which runs and was not signalled; no collect call, failed or
\* not, starts another process or replaces it.
OneWorkerPerInstance ==
    /\ instance.spawned <= 1
    /\ instance.state = "usable" =>
           /\ instance.spawned = 1
           /\ process.handle = "Popen"
    /\ (instance.state = "usable" /\ teardowns = 0) =>
           /\ process.alive
           /\ ~process.signalled

\* A second collect call has failed on a collector that was not torn down.
SecondCallFailedBeforeTeardown ==
    \E c \in Callers :
        /\ Ended(c)
        /\ outcome[c].kind = "CollectionError"
        /\ call[c].index >= 2
        /\ teardowns = 0
        /\ instance.spawned = 1

\* C12: when the worker cannot be launched the construction fails with the
\* launch error: no process runs, and no collector exists on which collect
\* or teardown could be called.
LaunchFailureLeavesNothing ==
    (instance.state # "unborn" /\ process.handle = "None") =>
        /\ instance.state = "failed"
        /\ instance.error = "FileNotFoundError"
        /\ instance.spawned = 0
        /\ ~process.alive
        /\ worker = NoWorker
        /\ ncalls = 0
        /\ teardowns = 0
        /\ stdin = <<>>
        /\ \A c \in Callers : pc[c] = "idle"

\* The construction has failed.
ConstructionFailed ==
    /\ instance.state = "failed"
    /\ instance.error = "FileNotFoundError"


\* C13: a response without an error field that has its three fields and
\* from which no tree can be returned (its objects list is empty, or a
\* category field names a path that is not among the node's children) makes
\* collect raise CollectionError and no other kind of exception.
StructuralFailureIsCollectionError ==
    \A c \in Callers :
        (/\ Ended(c)
         /\ outcome[c].line.kind = "json"
         /\ "error" \notin outcome[c].line.keys
         /\ ResponseKeys \subseteq outcome[c].line.keys
         /\ outcome[c].kind # "return")
        => outcome[c].kind = "CollectionError"


\* C14: the options a request forwards are the default filter list
\* overridden key by key by the options of that very call (the key "path",
\* which names the object, aside): a key is forwarded when it is a default
\* or one of the call's options, with the call's value when it gives one;
\* DEFAULT_CONFIG is the same after any number of calls, so that no option
\* of an earlier call is found in a later request.
ForwardedOptionsAreDefaultsOverridden ==
    /\ DEFAULT_CONFIG = Options({"filters"}, <<"!^_[^_]">>, "", "")
    /\ \A c \in Callers :
           call[c].writes >= 1 =>
               LET object == call[c].object
                   config == call[c].config
               IN  /\ object.keys \ {"path"} =
                          ({"filters"} \cup config.keys) \ {"path"}
                   /\ object.filters = IF "filters" \in config.keys
                                       THEN config.filters
                                       ELSE <<"!^_[^_]">>
                   /\ "members" \in config.keys =>
                          object.members = config.members

\* A call given no option, made after another call has ended on a worker
\* error, has written a request that forwards the default filters only.
LaterCallForwardsDefaultsOnly ==
    \E c \in Callers :
        /\ call[c].writes = 1
        /\ call[c].index >= 2
        /\ failed >= 1
        /\ call[c].config = NoOptions
        /\ call[c].object.keys = {"path", "filters"}
        /\ call[c].object.filters = <<"!^_[^_]">>


\* What the statements of `program` from the i-th on print, in order.
RECURSIVE PrintedBy(_, _)
PrintedBy(program, i) ==
    IF i > Len(program) THEN <<>>
    ELSE Printed(program[i]) \o PrintedBy(program, i + 1)

SetupStatements == UNION {Range(commands) : commands \in SetupCommandLists}

ReadlineReturns(c) ==
    /\ pc[c] = "reading"
    /\ ReadReturns(stdout, process)
    /\ pc' = [pc EXCEPT ![c] = "done"]

NextLive ==
    \/ \E identifier \in Identifiers : CollectWrite(1, identifier, NoOptions)
    \/ CollectRead(1)
    \/ Return(1)
    \/ Teardown(1)
    \/ WorkerRespond(ConcLines)
    \/ WorkerExit

SpecLive == Init /\ [][NextLive]_vars /\ WF_pc(ReadlineReturns(1))

\* C16: collect sets no timeout.  While the worker runs and has written
\* nothing, no step ends the call blocked in readline(): it neither returns
\* nor raises.  Once there is a line to read, or the worker has closed its
\* output, the blocked call eventually returns or raises (the fair step is
\* the one collect takes when readline() returns).
BlockedUntilWorkerActs ==
    /\ [][\A c \in Callers :
              (pc[c] = "reading" /\ stdout = <<>> /\ process.alive)
              => (pc'[c] = "reading" /\ outcome'[c] = outcome[c])]_vars
    /\ [][ReadlineReturns(1) <=> CollectRead(1)]_vars
    /\ (pc[1] = "reading" /\ (stdout # <<>> \/ ~process.alive))
           ~> (pc[1] = "done" /\ outcome[1].kind # "none")

\* A second call is blocked in readline(): the worker runs, was not
\* signalled and has written nothing.
BlockedInRead ==
    /\ pc[1] = "reading"
    /\ call[1].index >= 2
    /\ stdout = <<>>
    /\ process.alive
    /\ ~process.signalled


\* C17 as stated: when the line read is not JSON, the CollectionError is
\* raised with both the decode error and the raw text of the line.
DecodeErrorCarriesRawText ==
    \A c \in Callers :
        (Ended(c) /\ outcome[c].line.kind = "text")
        => /\ outcome[c].kind = "CollectionError"
           /\ DecodeMessage \in Range(outcome[c].args)
           /\ outcome[c].line.text \in Range(outcome[c].args)

\* C17, amended: when the line read is not JSON, the CollectionError is
\* raised with the text of the decode error only; the raw text of the line
\* is what the call logs as an error.
DecodeErrorCarriesMessageOnly ==
    \A c \in Callers :
        (Ended(c) /\ outcome[c].line.kind = "text")
        => /\ outcome[c].kind = "CollectionError"
           /\ outcome[c].args = <<DecodeMessage>>
           /\ log[c] = <<[level |-> "error", text |-> <<outcome[c].line.text>>]>>

\* A call has read a line of text that is not JSON, logged it and raised.
GarbageLineLogged ==
    \E c \in Callers :
        /\ Ended(c)
        /\ outcome[c].line.kind = "text"
        /\ outcome[c].line.text = Garbage.text
        /\ outcome[c].args = <<DecodeMessage>>
        /\ log[c] # <<>>
        /\ log[c][1].text = <<Garbage.text>>


\* C18: after teardown the collector's process handle is None: the
\* collector refers to no worker process.
TeardownClearsHandle ==
    teardowns >= 1 => process.handle = "None"

\* C19: the request a call writes names the identifier the call was given,
\* whatever its options are, an option named "path" included.
RequestNamesIdentifier ==
    \A c \in Callers :
        call[c].writes >= 1 => call[c].object.path = call[c].identifier

\* C20: a collect call made after teardown was called never ends by
\* returning a tree.
NoTreeAfterTeardown ==
    \A c \in Callers :
        (pc[c] = "done" /\ call[c].torn >= 1) => outcome[c].kind # "return"

=============================================================================
